---- MODULE Spec2Model ----
(***************************************************************************)
(* Model of homework.py: the Training hierarchy (Running, SportsWalking,   *)
(* Swimming), the InfoMessage summary, the read_package dispatcher and one *)
(* iteration of the driver loop (read_package, then main).                 *)
(*                                                                         *)
(* Python numbers are modelled as exact rationals n/d tagged with their    *)
(* Python type (int or float); IEEE-754 rounding of floats is abstracted.  *)
(* A Python value that is not a number (a str, None) and a raised          *)
(* exception are values of the same record shape, so that an expression    *)
(* evaluates either to a value or to the exception it raises.              *)
(***************************************************************************)
EXTENDS Integers, Sequences, FiniteSets, TLC

VARIABLES pc, workout_type, data, training, info, raised, out

vars == <<pc, workout_type, data, training, info, raised, out>>

---------------------------------------------------------------------------
(* Bounds of the model *)

\* longest argument list handed to the dispatcher
MaxData == 6
\* longest duration in hours; half hours up to it are floats
MaxDuration == 2

---------------------------------------------------------------------------
(* Python values *)

Abs(x) == IF x < 0 THEN -x ELSE x

RECURSIVE GCD(_, _)
GCD(a, b) == IF b = 0 THEN a ELSE GCD(b, a % b)

\* the rational n/d (d > 0) in lowest terms, tagged with a Python type
Num(k, n, d) ==
    LET g == GCD(Abs(n), d)
    IN  [kind |-> k, n |-> n \div g, d |-> d \div g]

PyInt(n) == [kind |-> "int", n |-> n, d |-> 1]
PyFloat(n, d) == Num("float", n, d)
Str == [kind |-> "str", n |-> 0, d |-> 1]
None == [kind |-> "none", n |-> 0, d |-> 1]

Exceptions == {"TypeError", "ZeroDivisionError", "AttributeError", "ValueError"}
Raise(name) == [kind |-> name, n |-> 0, d |-> 1]

IsNum(v) == v.kind \in {"int", "float"}
IsExc(v) == v.kind \in Exceptions

\* type of the result of a binary arithmetic operator on two numbers
ResKind(a, b) == IF a.kind = "int" /\ b.kind = "int" THEN "int" ELSE "float"

\* a + b
Add(a, b) ==
    IF IsExc(a) THEN a
    ELSE IF IsExc(b) THEN b
    ELSE IF IsNum(a) /\ IsNum(b)
         THEN Num(ResKind(a, b), a.n * b.d + b.n * a.d, a.d * b.d)
    ELSE Raise("TypeError")

\* a - b
Sub(a, b) ==
    IF IsExc(a) THEN a
    ELSE IF IsExc(b) THEN b
    ELSE IF IsNum(a) /\ IsNum(b)
         THEN Num(ResKind(a, b), a.n * b.d - b.n * a.d, a.d * b.d)
    ELSE Raise("TypeError")

\* a * b; a str times an int is a str (sequence repetition)
Mul(a, b) ==
    IF IsExc(a) THEN a
    ELSE IF IsExc(b) THEN b
    ELSE IF IsNum(a) /\ IsNum(b)
         THEN Num(ResKind(a, b), a.n * b.n, a.d * b.d)
    ELSE IF (a.kind = "str" /\ b.kind = "int") \/ (a.kind = "int" /\ b.kind = "str")
         THEN Str
    ELSE Raise("TypeError")

\* a / b (true division, always a float)
Div(a, b) ==
    IF IsExc(a) THEN a
    ELSE IF IsExc(b) THEN b
    ELSE IF IsNum(a) /\ IsNum(b)
         THEN IF b.n = 0 THEN Raise("ZeroDivisionError")
              ELSE IF b.n > 0 THEN Num("float", a.n * b.d, a.d * b.n)
              ELSE Num("float", -(a.n * b.d), -(a.d * b.n))
    ELSE Raise("TypeError")

\* a // b (floor division)
FloorDiv(a, b) ==
    IF IsExc(a) THEN a
    ELSE IF IsExc(b) THEN b
    ELSE IF IsNum(a) /\ IsNum(b)
         THEN IF b.n = 0 THEN Raise("ZeroDivisionError")
              ELSE IF b.n > 0
                   THEN Num(ResKind(a, b), (a.n * b.d) \div (a.d * b.n), 1)
              ELSE Num(ResKind(a, b), (-(a.n * b.d)) \div (-(a.d * b.n)), 1)
    ELSE Raise("TypeError")

\* a ** 2
Square(a) ==
    IF IsExc(a) THEN a
    ELSE IF IsNum(a) THEN Num(a.kind, a.n * a.n, a.d * a.d)
    ELSE Raise("TypeError")

\* the value of f'{v:.3f}' as a count of thousandths (round half to even)
Format3(v) ==
    IF IsNum(v)
    THEN LET q == (v.n * 1000) \div v.d
             r == (v.n * 1000) % v.d
         IN  PyInt(IF 2 * r > v.d \/ (2 * r = v.d /\ q % 2 = 1) THEN q + 1 ELSE q)
    ELSE IF v.kind = "str" THEN Raise("ValueError")
    ELSE Raise("TypeError")

---------------------------------------------------------------------------
(* Class attributes *)

Classes == {"Training", "Running", "SportsWalking", "Swimming"}

LEN_STEP_unshadowed(cls) == PyFloat(65, 100)

\* self.LEN_STEP: Swimming shadows the attribute of Training
LEN_STEP(cls) == IF cls = "Swimming" THEN PyFloat(138, 100) ELSE PyFloat(65, 100)

M_IN_KM == PyInt(1000)
ON_60_MINUTES == PyInt(60)

Running_coeff_calorie_1 == PyInt(18)
Running_coeff_calorie_2 == PyInt(20)
SportsWalking_coeff_calorie_1 == PyFloat(35, 1000)
SportsWalking_coeff_calorie_2 == PyFloat(29, 1000)
Swimming_coeff_calorie_1 == PyFloat(11, 10)
Swimming_coeff_calorie_2 == PyInt(2)

---------------------------------------------------------------------------
(* Objects *)

\* the value None where a Training is expected: no attributes, no methods
NoTraining ==
    [cls |-> "NoneType", action |-> None, duration |-> None, weight |-> None,
     height |-> None, length_pool |-> None, count_pool |-> None]

Training_init(cls, action, duration, weight) ==
    [NoTraining EXCEPT !.cls = cls, !.action = action, !.duration = duration,
                       !.weight = weight]

Running_init(action, duration, weight) ==
    Training_init("Running", action, duration, weight)

SportsWalking_init(action, duration, weight, height) ==
    [Training_init("SportsWalking", action, duration, weight)
        EXCEPT !.height = height]

Swimming_init(action, duration, weight, length_pool, count_pool) ==
    [Training_init("Swimming", action, duration, weight)
        EXCEPT !.length_pool = length_pool, !.count_pool = count_pool]

\* number of positional parameters of cls.__init__ besides self
Arity(cls) ==
    CASE cls = "Swimming" -> 5
      [] cls = "SportsWalking" -> 4
      [] OTHER -> 3

\* the call cls(*args), with no check of the number of arguments: missing
\* parameters are None, surplus arguments are dropped
New_lenient(cls, args) ==
    LET arg(i) == IF i <= Len(args) THEN args[i] ELSE None
    IN  [ret |-> CASE cls = "Swimming" ->
                        Swimming_init(arg(1), arg(2), arg(3), arg(4), arg(5))
                   [] cls = "SportsWalking" ->
                        SportsWalking_init(arg(1), arg(2), arg(3), arg(4))
                   [] cls = "Running" -> Running_init(arg(1), arg(2), arg(3))
                   [] OTHER -> Training_init(cls, arg(1), arg(2), arg(3)),
         exc |-> "none"]

\* the call cls(*args): Python binds the positional arguments to the
\* parameters of __init__ and raises TypeError when their number differs
New(cls, args) ==
    IF Len(args) # Arity(cls)
    THEN [ret |-> NoTraining, exc |-> "TypeError"]
    ELSE [ret |-> CASE cls = "Swimming" ->
                        Swimming_init(args[1], args[2], args[3], args[4], args[5])
                    [] cls = "SportsWalking" ->
                        SportsWalking_init(args[1], args[2], args[3], args[4])
                    [] cls = "Running" -> Running_init(args[1], args[2], args[3])
                    [] OTHER -> Training_init(cls, args[1], args[2], args[3]),
          exc |-> "none"]

NoInfo ==
    [training_type |-> "", duration |-> None, distance |-> None,
     speed |-> None, calories |-> None]

InfoMessage_init(training_type, duration, distance, speed, calories) ==
    [training_type |-> training_type, duration |-> duration,
     distance |-> distance, speed |-> speed, calories |-> calories]

---------------------------------------------------------------------------
(* Methods *)

Training_get_distance_km_missing(self) == Mul(self.action, LEN_STEP(self.cls))

Training_get_distance(self) ==
    Div(Mul(self.action, LEN_STEP(self.cls)), M_IN_KM)

Training_get_mean_speed(self) == Div(Training_get_distance(self), self.duration)

Swimming_get_mean_speed_guarded(self) ==
    IF IsNum(self.duration) /\ self.duration.n = 0 THEN PyFloat(0, 1)
    ELSE Div(Div(Mul(self.length_pool, self.count_pool), M_IN_KM), self.duration)

Swimming_get_mean_speed(self) ==
    Div(Div(Mul(self.length_pool, self.count_pool), M_IN_KM), self.duration)

get_mean_speed_inherited(self) == Training_get_mean_speed(self)

\* self.get_mean_speed(): Swimming overrides the method of Training
get_mean_speed(self) ==
    IF self.cls = "Swimming" THEN Swimming_get_mean_speed(self)
    ELSE Training_get_mean_speed(self)

\* the body is pass: the call returns None
Training_get_spent_calories(self) == None

Running_get_spent_calories_swapped(self) ==
    Mul(Div(Mul(Sub(Mul(Running_coeff_calorie_2, get_mean_speed(self)),
                    Running_coeff_calorie_1),
                self.weight),
            M_IN_KM),
        Mul(self.duration, ON_60_MINUTES))

Running_get_spent_calories(self) ==
    Mul(Div(Mul(Sub(Mul(Running_coeff_calorie_1, get_mean_speed(self)),
                    Running_coeff_calorie_2),
                self.weight),
            M_IN_KM),
        Mul(self.duration, ON_60_MINUTES))

SportsWalking_get_spent_calories(self) ==
    Mul(Mul(Add(Mul(SportsWalking_coeff_calorie_1, self.weight),
                Mul(FloorDiv(Square(get_mean_speed(self)), self.height),
                    SportsWalking_coeff_calorie_2)),
            self.duration),
        ON_60_MINUTES)

Swimming_get_spent_calories_no_offset(self) ==
    Mul(Mul(get_mean_speed(self), Swimming_coeff_calorie_2), self.weight)

Swimming_get_spent_calories(self) ==
    Mul(Mul(Add(get_mean_speed(self), Swimming_coeff_calorie_1),
            Swimming_coeff_calorie_2),
        self.weight)

\* self.get_spent_calories(): every subclass overrides the method of Training
get_spent_calories(self) ==
    CASE self.cls = "Running" -> Running_get_spent_calories(self)
      [] self.cls = "SportsWalking" -> SportsWalking_get_spent_calories(self)
      [] self.cls = "Swimming" -> Swimming_get_spent_calories(self)
      [] OTHER -> Training_get_spent_calories(self)

\* the first exception among the values of an argument list, "none" if none
FirstExc(vals) ==
    IF \E i \in 1..Len(vals) : IsExc(vals[i])
    THEN vals[CHOOSE i \in 1..Len(vals) :
                 IsExc(vals[i]) /\ \A j \in 1..(i - 1) : ~IsExc(vals[j])].kind
    ELSE "none"

\* training.show_training_info(); None has no such attribute
show_training_info(self) ==
    IF self.cls = "NoneType"
    THEN [ret |-> NoInfo, exc |-> "AttributeError"]
    ELSE LET distance == Training_get_distance(self)
             speed == get_mean_speed(self)
             calories == get_spent_calories(self)
             exc == FirstExc(<<distance, speed, calories>>)
         IN  IF exc # "none" THEN [ret |-> NoInfo, exc |-> exc]
             ELSE [ret |-> InfoMessage_init(self.cls, self.duration, distance,
                                            speed, calories),
                   exc |-> "none"]

\* info.get_message(): the four numbers rendered with three decimals
get_message(self) ==
    LET duration == Format3(self.duration)
        distance == Format3(self.distance)
        speed == Format3(self.speed)
        calories == Format3(self.calories)
        exc == FirstExc(<<duration, distance, speed, calories>>)
    IN  IF exc # "none" THEN [ret |-> NoInfo, exc |-> exc]
        ELSE [ret |-> InfoMessage_init(self.training_type, duration, distance,
                                       speed, calories),
              exc |-> "none"]

\* the keys of workout_type_dict and the class each maps to
workout_type_dict ==
    [code \in {"SWM", "RUN", "WLK"} |->
        CASE code = "SWM" -> "Swimming"
          [] code = "RUN" -> "Running"
          [] OTHER -> "SportsWalking"]

\* read_package(workout_type, data); falls off the end (returns None) when
\* the code is not a key of the dictionary
read_package(wt, args) ==
    IF wt \in DOMAIN workout_type_dict
    THEN New(workout_type_dict[wt], args)
    ELSE [ret |-> NoTraining, exc |-> "none"]

---------------------------------------------------------------------------
(* Inputs *)

\* a value that is not a number
NotNumbers == {Str}

ActionVals == {PyInt(n) : n \in {0, 720, 9000, 15000, 20000}}
DurationVals ==
    {PyInt(h) : h \in 0..MaxDuration} \cup {PyFloat(h, 2) : h \in {1, 2 * MaxDuration - 1}}
WeightVals == {PyInt(75), PyInt(80), PyFloat(0, 1)}
\* fourth argument: height in cm or length of the pool in m
FourthVals == {PyInt(0), PyInt(25), PyInt(100), PyInt(180)}
\* fifth argument: number of pool lengths swum
FifthVals == {PyInt(0), PyInt(40)}

\* the values tried in position i of an argument list
ArgVals(i) ==
    CASE i = 1 -> ActionVals \cup NotNumbers
      [] i = 2 -> DurationVals \cup NotNumbers
      [] i = 3 -> WeightVals \cup NotNumbers
      [] i = 4 -> FourthVals \cup NotNumbers
      [] i = 5 -> FifthVals \cup NotNumbers
      [] OTHER -> {PyInt(1)}

\* the argument lists of length n
RECURSIVE ArgLists(_)
ArgLists(n) ==
    IF n = 0 THEN {<<>>}
    ELSE {Append(l, v) : l \in ArgLists(n - 1), v \in ArgVals(n)}

DataLists == UNION {ArgLists(n) : n \in 0..MaxData}

\* the three codes of the dictionary and one that is not in it
WorkoutTypes == {"SWM", "RUN", "WLK", "XYZ"}

\* the list of the driver
packages ==
    << <<"SWM", <<PyInt(720), PyInt(1), PyInt(80), PyInt(25), PyInt(40)>> >>,
       <<"RUN", <<PyInt(15000), PyInt(1), PyInt(75)>> >>,
       <<"WLK", <<PyInt(9000), PyInt(1), PyInt(75), PyInt(180)>> >> >>

---------------------------------------------------------------------------
(* One run: a record is built, then main(training) *)

Init ==
    /\ pc = "start"
    /\ workout_type = ""
    /\ data = <<>>
    /\ training = NoTraining
    /\ info = NoInfo
    /\ raised = "none"
    /\ out = NoInfo

\* training = read_package(workout_type, data)
ReadPackage ==
    /\ pc = "start"
    /\ \E wt \in WorkoutTypes, args \in DataLists :
          LET r == read_package(wt, args)
          IN  /\ workout_type' = wt
              /\ data' = args
              /\ training' = r.ret
              /\ raised' = r.exc
              /\ pc' = IF r.exc = "none" THEN "read" ELSE "raised"
    /\ UNCHANGED <<info, out>>

\* training = Training(action, duration, weight): the base class is built
\* directly, which read_package never does
NewTraining ==
    /\ pc = "start"
    /\ \E args \in ArgLists(3) :
          LET r == New("Training", args)
          IN  /\ data' = args
              /\ training' = r.ret
              /\ raised' = r.exc
              /\ pc' = IF r.exc = "none" THEN "read" ELSE "raised"
    /\ UNCHANGED <<workout_type, info, out>>

\* main, first statement: info = training.show_training_info()
ShowTrainingInfo ==
    /\ pc = "read"
    /\ LET r == show_training_info(training)
       IN  /\ info' = r.ret
           /\ raised' = r.exc
           /\ pc' = IF r.exc = "none" THEN "shown" ELSE "raised"
    /\ UNCHANGED <<workout_type, data, training, out>>

\* main, second statement: print(info.get_message())
PrintMessage ==
    /\ pc = "shown"
    /\ LET r == get_message(info)
       IN  /\ out' = r.ret
           /\ raised' = r.exc
           /\ pc' = IF r.exc = "none" THEN "printed" ELSE "raised"
    /\ UNCHANGED <<workout_type, data, training, info>>

Next == ReadPackage \/ NewTraining \/ ShowTrainingInfo \/ PrintMessage

Spec == Init /\ [][Next]_vars

TypeOK ==
    /\ pc \in {"start", "read", "shown", "printed", "raised"}
    /\ raised \in Exceptions \cup {"none"}
    /\ training.cls \in Classes \cup {"NoneType"}
    /\ (pc = "raised") = (raised # "none")

---------------------------------------------------------------------------
(* Properties *)

Positive(v) == IsNum(v) /\ v.n > 0
NonNeg(v) == IsNum(v) /\ v.n >= 0
IsZero(v) == IsNum(v) /\ v.n = 0

\* two numbers are equal as numbers, whatever their Python types
NumEq(a, b) == IsNum(a) /\ IsNum(b) /\ a.n * b.d = b.n * a.d

\* |v - c| < 0.05: v agrees with c to the decimal it is quoted with
Approx(v, c) ==
    /\ IsNum(v)
    /\ 20 * Abs(v.n * c.d - c.n * v.d) < v.d * c.d

Returned == {"read", "shown", "printed"}
Summarised == {"shown", "printed"}
Dispatched == pc # "start" /\ workout_type \in WorkoutTypes
Recognized == Dispatched /\ workout_type \in DOMAIN workout_type_dict
Concrete == {"Running", "SportsWalking", "Swimming"}

\* every attribute the class of the record declares holds a number
WellTyped(t) ==
    /\ IsNum(t.action) /\ IsNum(t.duration) /\ IsNum(t.weight)
    /\ t.cls = "SportsWalking" => IsNum(t.height)
    /\ t.cls = "Swimming" => IsNum(t.length_pool) /\ IsNum(t.count_pool)

\* C1: for a code that is none of SWM, RUN, WLK the dispatcher raises at the
\* dispatch call and never returns normally
C1_UnknownCodeRaises ==
    (Dispatched /\ workout_type \notin DOMAIN workout_type_dict)
        => (pc = "raised" /\ training = NoTraining /\ info = NoInfo)

C3_BaseCaloriesRaises ==
    (pc # "start" /\ training.cls = "Training")
        => (IsExc(get_spent_calories(training)) /\ pc \notin Summarised)

\* the calories of a walk as the claim gives them, second term times weight
WalkingCaloriesTimesWeight(action, duration, weight, height) ==
    LET speed == Div(Div(Mul(action, PyFloat(65, 100)), PyInt(1000)), duration)
    IN  Mul(Mul(Add(Mul(PyFloat(35, 1000), weight),
                    Mul(Mul(FloorDiv(Square(speed), height), PyFloat(29, 1000)),
                        weight)),
                duration),
            PyInt(60))

\* C4: the calories of a walking record with valid fields are
\* (0.035 * weight + floor(speed^2 / height) * 0.029 * weight) * duration * 60
C4_WalkingCalories ==
    (Dispatched /\ workout_type = "WLK" /\ pc \in Summarised
     /\ NonNeg(training.action) /\ Positive(training.duration)
     /\ Positive(training.weight) /\ Positive(training.height))
        => NumEq(info.calories,
                 WalkingCaloriesTimesWeight(data[1], data[2], data[3], data[4]))

\* the calories of a run as the formula gives them from the argument list
RunningCaloriesDirect(action, duration, weight) ==
    LET speed == Div(Div(Mul(action, PyFloat(65, 100)), PyInt(1000)), duration)
    IN  Mul(Mul(Div(Mul(Sub(Mul(PyInt(18), speed), PyInt(20)), weight), PyInt(1000)),
                duration),
            PyInt(60))

ValidRun ==
    /\ Dispatched /\ workout_type = "RUN" /\ Len(data) = 3
    /\ NonNeg(data[1]) /\ Positive(data[2]) /\ Positive(data[3])

\* C5: for RUN with action >= 0, duration > 0, weight > 0 the summary is
\* produced and its calories equal (18 * speed - 20) * weight / 1000 *
\* duration * 60 with speed = action * 0.65 / 1000 / duration
C5_RunningRoundTrip ==
    ValidRun =>
        /\ pc \in Returned
        /\ pc \in Summarised =>
              NumEq(info.calories, RunningCaloriesDirect(data[1], data[2], data[3]))

C5_Witness ==
    /\ ValidRun /\ pc = "shown"
    /\ data = <<PyInt(9000), PyFloat(1, 2), PyInt(80)>>
    /\ NumEq(info.calories, RunningCaloriesDirect(data[1], data[2], data[3]))

SampleRun == Dispatched /\ workout_type = packages[2][1] /\ data = packages[2][2]

\* C6, as stated: the calories of the summary of RUN [15000, 1, 75] are
\* approximately 2200.5
C6_SampleRunning2200 ==
    (SampleRun /\ pc \in Summarised) => Approx(info.calories, PyFloat(22005, 10))

\* C6, amended: the calories of the summary of RUN [15000, 1, 75] are
\* approximately 699.75
C6_SampleRunning699 ==
    SampleRun =>
        /\ pc \in Returned
        /\ pc \in Summarised => Approx(info.calories, PyFloat(69975, 100))

C6_Witness == SampleRun /\ pc = "shown" /\ Approx(info.calories, PyFloat(69975, 100))

ValidSwim ==
    /\ Dispatched /\ workout_type = "SWM" /\ Len(data) = 5
    /\ \A i \in 1..5 : IsNum(data[i])
    /\ Positive(data[2])

SampleSwim == Dispatched /\ workout_type = packages[1][1] /\ data = packages[1][2]

\* C7: for a swim with duration > 0 the mean speed is length_pool *
\* count_pool / 1000 / duration and the calories are (speed + 1.1) * 2 *
\* weight; SWM [720, 1, 80, 25, 40] has speed 1.0 and calories 336.0
C7_SwimmingFormulas ==
    ValidSwim =>
        LET speed == Div(Div(Mul(data[4], data[5]), PyInt(1000)), data[2])
            calories == Mul(Mul(Add(speed, PyFloat(11, 10)), PyInt(2)), data[3])
        IN  /\ pc \in Returned
            /\ NumEq(get_mean_speed(training), speed)
            /\ NumEq(get_spent_calories(training), calories)
            /\ pc \in Summarised =>
                  /\ NumEq(info.speed, speed)
                  /\ NumEq(info.calories, calories)
                  /\ SampleSwim => info.speed = PyFloat(1, 1)
                                   /\ info.calories = PyFloat(336, 1)

C7_Witness ==
    /\ SampleSwim /\ pc = "shown"
    /\ info.speed = PyFloat(1, 1) /\ info.calories = PyFloat(336, 1)

\* C8: two swimming records that differ only in action have the same mean
\* speed and the same calories, computed directly and in their summaries
C8_SwimmingIgnoresAction ==
    (pc \in Summarised /\ training.cls = "Swimming") =>
        \A a \in ActionVals :
            LET other == [training EXCEPT !.action = a]
                r == show_training_info(other)
            IN  /\ get_mean_speed(other) = get_mean_speed(training)
                /\ get_spent_calories(other) = get_spent_calories(training)
                /\ r.exc = "none"
                /\ r.ret.speed = info.speed
                /\ r.ret.calories = info.calories

C8_Witness ==
    /\ pc = "shown" /\ training.cls = "Swimming"
    /\ training.action = PyInt(720)
    /\ LET r == show_training_info([training EXCEPT !.action = PyInt(9000)])
       IN  /\ r.exc = "none"
           /\ r.ret.distance # info.distance
           /\ r.ret.speed = info.speed
           /\ r.ret.calories = info.calories

ZeroDuration ==
    /\ pc # "start" /\ training.cls \in Concrete
    /\ WellTyped(training) /\ IsZero(training.duration)

\* C9: for a record of any variant with duration 0, get_mean_speed raises
\* ZeroDivisionError, so do get_spent_calories and show_training_info, and
\* no summary is produced or printed
C9_ZeroDurationRaises ==
    ZeroDuration =>
        /\ get_mean_speed(training) = Raise("ZeroDivisionError")
        /\ get_spent_calories(training) = Raise("ZeroDivisionError")
        /\ show_training_info(training).exc = "ZeroDivisionError"
        /\ pc \in {"read", "raised"}
        /\ pc = "raised" => raised = "ZeroDivisionError"
        /\ info = NoInfo /\ out = NoInfo

C9_Witness ==
    /\ ZeroDuration /\ training.cls = "Swimming"
    /\ pc = "raised" /\ raised = "ZeroDivisionError" /\ info = NoInfo

ValidRecord ==
    /\ pc # "start" /\ training.cls \in Concrete
    /\ WellTyped(training)
    /\ NonNeg(training.action) /\ Positive(training.duration)
    /\ training.cls = "Swimming" =>
          Positive(training.length_pool) /\ NonNeg(training.count_pool)

\* C10: for a record of any variant with valid fields the distance is
\* action * 0.65 / 1000 (1.38 for swimming) and is >= 0, and the mean
\* speed is >= 0
C10_NonNegative ==
    ValidRecord =>
        LET distance == Training_get_distance(training)
            speed == get_mean_speed(training)
            step == IF training.cls = "Swimming" THEN 138 ELSE 65
        IN  /\ NonNeg(distance) /\ NonNeg(speed)
            /\ distance.n * training.action.d * 100000
                   = training.action.n * step * distance.d
            /\ pc \in Summarised =>
                  info.distance = distance /\ info.speed = speed

C10_Witness ==
    /\ ValidRecord /\ pc = "shown" /\ training.cls = "Swimming"
    /\ training.action = PyInt(720)
    /\ info.distance = PyFloat(621, 625)
    /\ Positive(info.speed)

====
